---- MODULE Spec2Model ----
(***************************************************************************)
(* AgriFusion backend: the market and weather services, the AI service    *)
(* and the handlers and routes of the server.                              *)
(*                                                                         *)
(* Numbers.  Math.random() results are multiples of 1/RandomScale, running *)
(* prices are multiples of 1/Milli, emitted prices are whole cents.  An    *)
(* instant is a whole number of hours since the epoch and a calendar date  *)
(* the number of its day; Date#setDate works on the fields of the host's   *)
(* local time, Date#toISOString prints UTC.                                *)
(***************************************************************************)
EXTENDS Integers, Sequences, FiniteSets, TLC

VARIABLES
  clock,      \* the system clock: the current instant, in hours since the epoch
  tz,         \* the host's time zone
  weather,    \* the object the getWeatherData call returned
  alerts,     \* the array the getWeatherAlerts call returned
  rng,        \* the results Math.random() is still to return, in order
  pc,         \* getPriceHistory, per invocation: "idle", "loop", "done"
  args,       \* the arguments it was called with (days: <<>> when omitted)
  crop,       \* its `crop` parameter
  days,       \* its `days` parameter, the default applied
  idx,        \* its loop variable `i`
  basePrice,  \* its accumulator `basePrice`
  history,    \* its `history` array
  result,     \* the object it returned
  fed,        \* the Math.random() results it has consumed, in order
  reads,      \* the clock values its iterations have read, in order
  apiKey,     \* whether OPENAI_API_KEY is configured
  hpc,        \* getFarmerAdvice, per request: "idle", "upstream", "settled", "done"
  body,       \* req.body
  upstream,   \* how the request's axios.post settled ("none" before it does)
  advice,     \* how the promise of getAIAdvice settled
  responses,  \* the responses sent on `res`, in order
  aiCalls,    \* the number of getAIAdvice calls the request made
  request,    \* the request: method, path, whether its JSON body parses
  handler,    \* the middleware or route handler that took the request
  timing,     \* how the promise of getAITimingAdvice settled
  market      \* how the promise of getMarketData settled

callVars == <<rng, pc, args, crop, days, idx, basePrice, history, result, fed, reads>>

routeVars == <<request, handler>>

adviceVars == <<apiKey, hpc, body, upstream, advice, responses, aiCalls, routeVars, timing, market>>

envVars == <<tz, weather, alerts>>

vars == <<clock, callVars, adviceVars, envVars>>

\* ---------------------------------------------------------------- bounds

\* Largest explicit `days` argument (the omitted argument means DefaultDays).
MaxDays == 2

\* Largest `days` argument of the two overlapping invocations.
ConcMaxDays == 1

\* Number of hours the clock may pass during a run.
MaxTicks == 1

\* ------------------------------------------------------ program constants

DefaultDays == 30

StartBase == 100

StartSpan == 100

StepMagnitude == 10

MinPrice == 50

MaxPrice == 300

VolumeBase == 500

VolumeSpan == 5000

\* getMarketData: the spans and offsets of its Math.floor(Math.random() * n) + m.
PriceBase == 100

PriceSpan == 200

ChangeSpan == 20

TrendVolumeBase == 1000

TrendVolumeSpan == 10000

RegionBase == 80

RegionSpan == 150

TopBase == 50

TopSpan == 100

\* crops.slice(0, 3)
TopCount == 3

\* getWeatherData: the spans and offsets of its Math.floor(Math.random() * n) + m.
TemperatureBase == 10

TemperatureSpan == 30

HumidityBase == 30

HumiditySpan == 50

RainfallSpan == 20

\* ------------------------------------------------------------ number model

RandomScale == 10000

Milli == 1000

CentsPerUnit == 100

HoursPerDay == 24

\* The day and the hour (UTC) new Date() reports when the run begins: 11 March
\* 2024, 23:00, the last hour before midnight.
Day0 == 19793

Hour0 == 23

Start == Day0 * HoursPerDay + Hour0

\* Host time zones: UTC, and one with daylight saving time (its rule of 2024:
\* UTC-4 from 10 March 07:00 UTC until 3 November 06:00 UTC, UTC-5 otherwise).
Zones == {"UTC", "America/New_York"}

ZoneRule(z) ==
  IF z = "America/New_York"
  THEN [std |-> -5, dst |-> -4,
        from |-> 19792 * HoursPerDay + 7, until |-> 20030 * HoursPerDay + 6]
  ELSE [std |-> 0, dst |-> 0, from |-> 0, until |-> 0]

\* The offset of local time from UTC at the instant t.
UtcOffset(z, t) ==
  IF ZoneRule(z).from <= t /\ t < ZoneRule(z).until THEN ZoneRule(z).dst ELSE ZoneRule(z).std

\* The local time of an instant, as hours since the epoch on the local calendar.
LocalTime(z, t) == t + UtcOffset(z, t)

\* The instant of a local time: the earlier one when the local time occurs
\* twice, and the offset before the transition when it is skipped.
UtcOfLocal(z, l) ==
  LET cands == {t \in {l - ZoneRule(z).std, l - ZoneRule(z).dst} : LocalTime(z, t) = l}
  IN  IF cands = {} THEN l - ZoneRule(z).std
      ELSE CHOOSE t \in cands : \A u \in cands : t <= u

\* toISOString().split('T')[0]: the UTC day of an instant.
UtcDate(t) == t \div HoursPerDay

\* Math.random() results explored: 0, one half, and just below one.
Draws == {0, RandomScale \div 2, RandomScale - 2}

CallIds == {1, 2}

Crops == {"Wheat", "Rice"}

\* `days` arguments: <<>> is the omitted argument, <<d>> the argument d.
DaysArgs == {<<>>} \cup {<<d>> : d \in -1 .. MaxDays}

ConcDaysArgs == {<<d>> : d \in -1 .. ConcMaxDays}

\* ------------------------------------------------------------- randomness

\* Math.random() calls of one invocation with `d` days: one for the starting
\* price, two per loop iteration.
DrawsNeeded(d) == 1 + 2 * (IF d >= 0 THEN d + 1 ELSE 0)

TapeLen == DrawsNeeded(DefaultDays)

ConcTapeLen == 2 * DrawsNeeded(ConcMaxDays)

\* The randomness source returns a fixed sequence: k times a, then b.
TwoPhase(a, b, k, len) == [j \in 1 .. len |-> IF j <= k THEN a ELSE b]

\* The source changes phase after the starting draw or after an even number
\* of whole iterations.
SwitchPoints(len) == {k \in 0 .. len : k % 4 = 1}

Tapes(len) == {TwoPhase(a, b, k, len) : a \in Draws, b \in Draws, k \in SwitchPoints(len)}

\* ------------------------------------------------------ getPriceHistory

\* `days = 30` default parameter.
EffectiveDaysNoDefault(a) == IF a = <<>> THEN 0 ELSE a[1]

EffectiveDays(a) == IF a = <<>> THEN DefaultDays ELSE a[1]

\* Math.floor(Math.random() * 100) + 100, in 1/Milli.
StartPrice(r) == ((r * StartSpan) \div RandomScale + StartBase) * Milli

\* (Math.random() - 0.5) * 10, in 1/Milli.
DeltaNotHalved(r) == (r * 2 * StepMagnitude * Milli) \div RandomScale - StepMagnitude * Milli

Delta(r) == (r * StepMagnitude * Milli) \div RandomScale - (StepMagnitude * Milli) \div 2

\* Math.max(50, Math.min(300, x)).
ClampUpperOnly(x) == IF x > MaxPrice * Milli THEN MaxPrice * Milli ELSE x

Clamp(x) ==
  LET lo == MinPrice * Milli
      hi == MaxPrice * Milli
      m  == IF x < hi THEN x ELSE hi
  IN  IF m > lo THEN m ELSE lo

\* basePrice += delta; basePrice = clamp(basePrice).
StepPriceNoClamp(base, r) == base + Delta(r)

StepPrice(base, r) == Clamp(base + Delta(r))

\* Math.round(x * 100) / 100, as whole cents: halves round up.
RoundCents(x) == (x * CentsPerUnit * 2 + Milli) \div (2 * Milli)

\* Math.floor(Math.random() * 5000) + 500.
VolumeNoBase(r) == (r * VolumeSpan) \div RandomScale

Volume(r) == (r * VolumeSpan) \div RandomScale + VolumeBase

\* new Date(); setDate(getDate() - n); toISOString().split('T')[0]: n days
\* back on the local calendar at the same local hour, printed as a UTC date.
SampleDate(z, now, n) == UtcDate(UtcOfLocal(z, LocalTime(z, now) - n * HoursPerDay))

\* `${days} days`.
Period(d) == <<d, " days">>

\* let i = days.
LoopStartAbs(d) == IF d < 0 THEN -d ELSE d

LoopStart(d) == d

\* i >= 0.
LoopCondStrict(n) == n > 0

LoopCond(n) == n >= 0

NoResult == [crop |-> "", history |-> <<>>, period |-> <<>>]

\* The accumulator a loop iteration of call c continues from.
AccumulatorSkipFirst(c) == IF history[c] = <<>> THEN basePrice[c] - Delta(Head(rng)) ELSE basePrice[c]

AccumulatorPersisted(c) ==
  LET finished == {o \in CallIds \ {c} : pc[o] = "done"}
  IN  IF history[c] = <<>> /\ finished # {}
      THEN basePrice[CHOOSE o \in finished : TRUE]
      ELSE basePrice[c]

AccumulatorShared(c) ==
  LET others == {o \in CallIds \ {c} : pc[o] # "idle"}
  IN  IF others = {} THEN basePrice[c] ELSE basePrice[CHOOSE o \in others : TRUE]

Accumulator(c) == basePrice[c]

\* Entry of getPriceHistory: history = [], the starting price, i = days.
Call(c, cr, a) ==
  /\ pc[c] = "idle"
  /\ Len(rng) >= DrawsNeeded(EffectiveDays(a))
  /\ pc' = [pc EXCEPT ![c] = "loop"]
  /\ args' = [args EXCEPT ![c] = [crop |-> cr, days |-> a]]
  /\ crop' = [crop EXCEPT ![c] = cr]
  /\ days' = [days EXCEPT ![c] = EffectiveDays(a)]
  /\ idx' = [idx EXCEPT ![c] = LoopStart(EffectiveDays(a))]
  /\ basePrice' = [basePrice EXCEPT ![c] = StartPrice(Head(rng))]
  /\ history' = [history EXCEPT ![c] = <<>>]
  /\ fed' = [fed EXCEPT ![c] = <<Head(rng)>>]
  /\ rng' = Tail(rng)
  /\ UNCHANGED <<clock, result, reads, adviceVars, envVars>>

\* One iteration of the loop: read the clock, step and clamp, push a sample.
IterateNoDecrement(c) ==
  /\ pc[c] = "loop"
  /\ LoopCond(idx[c])
  /\ Len(rng) >= 2
  /\ LET r1   == rng[1]
         r2   == rng[2]
         next == StepPrice(Accumulator(c), r1)
     IN  /\ basePrice' = [basePrice EXCEPT ![c] = next]
         /\ history' = [history EXCEPT ![c] = Append(@,
                [date   |-> SampleDate(tz, clock, idx[c]),
                 price  |-> RoundCents(next),
                 volume |-> Volume(r2)])]
         /\ fed' = [fed EXCEPT ![c] = @ \o <<r1, r2>>]
  /\ reads' = [reads EXCEPT ![c] = Append(@, clock)]
  /\ rng' = Tail(Tail(rng))
  /\ UNCHANGED <<clock, pc, args, crop, days, idx, result, adviceVars, envVars>>

Iterate(c) ==
  /\ pc[c] = "loop"
  /\ LoopCond(idx[c])
  /\ LET r1   == rng[1]
         r2   == rng[2]
         next == StepPrice(Accumulator(c), r1)
     IN  /\ basePrice' = [basePrice EXCEPT ![c] = next]
         /\ history' = [history EXCEPT ![c] = Append(@,
                [date   |-> SampleDate(tz, clock, idx[c]),
                 price  |-> RoundCents(next),
                 volume |-> Volume(r2)])]
         /\ fed' = [fed EXCEPT ![c] = @ \o <<r1, r2>>]
  /\ reads' = [reads EXCEPT ![c] = Append(@, clock)]
  /\ idx' = [idx EXCEPT ![c] = @ - 1]
  /\ rng' = Tail(Tail(rng))
  /\ UNCHANGED <<clock, pc, args, crop, days, result, adviceVars, envVars>>

\* Loop exit: return { crop, history, period }.
Return(c) ==
  /\ pc[c] = "loop"
  /\ ~LoopCond(idx[c])
  /\ pc' = [pc EXCEPT ![c] = "done"]
  /\ result' = [result EXCEPT ![c] =
        [crop |-> crop[c], history |-> history[c], period |-> Period(days[c])]]
  /\ UNCHANGED <<rng, clock, args, crop, days, idx, basePrice, history, fed, reads, adviceVars, envVars>>

\* An hour passes on the system clock.
Tick ==
  /\ clock < Start + MaxTicks
  /\ clock' = clock + 1
  /\ UNCHANGED <<callVars, adviceVars, envVars>>

\* ------------------------------------------------ getFarmerAdvice, getAIAdvice

ReqIds == {1, 2}

\* JSON values of a body field: absent, "", a text, a plain object, and an
\* object whose own "toString" member is not a function.
Missing == [type |-> "undefined", text |-> "undefined", toString |-> "none"]

EmptyString == [type |-> "string", text |-> "", toString |-> "inherited"]

Text(t) == [type |-> "string", text |-> t, toString |-> "inherited"]

PlainObject == [type |-> "object", text |-> "[object Object]", toString |-> "inherited"]

OddObject == [type |-> "object", text |-> "", toString |-> "not callable"]

CropValues == {Missing, EmptyString, Text("wheat"), OddObject}

LocationValues == {Missing, EmptyString, Text("Iowa"), PlainObject}

Bodies == [crop : CropValues, location : LocationValues]

\* !v
Falsy(v) == v.type = "undefined" \/ (v.type = "string" /\ v.text = "")

\* Whether `${v}` evaluates: ToPrimitive finds a callable toString or a valueOf
\* that yields a primitive.
Printable(v) == ~(v.type = "object" /\ v.toString = "not callable")

\* `${v}`
ToStr(v) == v.text

\* How axios.post can settle: a well-formed completion, a 2xx body without
\* choices, an error status, a network error.  The key goes into the
\* Authorization header; no branch of the code reads it.
Outcomes == {"ok", "malformed", "status", "network"}

Pending == [state |-> "pending", crop |-> Missing, location |-> Missing,
            advice |-> <<>>, timestamp |-> 0, note |-> <<>>]

Rejected == [state |-> "rejected", crop |-> Missing, location |-> Missing,
             advice |-> <<"Cannot convert object to primitive value">>,
             timestamp |-> 0, note |-> <<>>]

FallbackNote == "This is a fallback response due to API unavailability"

\* The catch block of getAIAdvice: the fallback object, whose template reads
\* crop and location again.
Fallback(cr, loc, now) ==
  IF Printable(cr) /\ Printable(loc)
  THEN [state |-> "fulfilled", crop |-> cr, location |-> loc,
        advice |-> <<"Mock advice: For ", ToStr(cr), " in ", ToStr(loc)>>,
        timestamp |-> now, note |-> <<FallbackNote>>]
  ELSE Rejected

\* The return of getAIAdvice after a well-formed completion.
Completion(cr, loc, now) ==
  [state |-> "fulfilled", crop |-> cr, location |-> loc,
   advice |-> <<"response.data.choices[0].message.content">>,
   timestamp |-> now, note |-> <<>>]

\* res.status(400).json({ error }), res.json({ success, data }),
\* res.status(500).json({ error, message }).
BadRequest == [status |-> 400, success |-> FALSE, data |-> Pending,
               error |-> "Missing required fields: crop and location are required"]

Success(adv) == [status |-> 200, success |-> TRUE, data |-> adv, error |-> ""]

ServerError == [status |-> 500, success |-> FALSE, data |-> Pending,
                error |-> "Failed to get farming advice"]

\* !crop || !location
RequiredFieldsMissingBoth(b) == Falsy(b.crop) /\ Falsy(b.location)

RequiredFieldsMissing(b) == Falsy(b.crop) \/ Falsy(b.location)

\* getFarmerAdvice up to its await: validation, then getAIAdvice up to its own
\* await (the prompt template, axios.post).  The request line is the router's.
Receive(q, b) ==
  /\ hpc[q] = "idle"
  /\ body' = [body EXCEPT ![q] = b]
  /\ IF RequiredFieldsMissing(b)
     THEN /\ responses' = [responses EXCEPT ![q] = Append(@, BadRequest)]
          /\ hpc' = [hpc EXCEPT ![q] = "done"]
          /\ UNCHANGED <<advice, aiCalls>>
     ELSE /\ aiCalls' = [aiCalls EXCEPT ![q] = @ + 1]
          /\ IF Printable(b.crop) /\ Printable(b.location)
             THEN /\ hpc' = [hpc EXCEPT ![q] = "upstream"]
                  /\ UNCHANGED advice
             ELSE /\ hpc' = [hpc EXCEPT ![q] = "settled"]
                  /\ advice' = [advice EXCEPT ![q] = Fallback(b.crop, b.location, clock)]
          /\ UNCHANGED responses
  /\ UNCHANGED <<clock, apiKey, upstream, timing, market, callVars, envVars>>

\* axios.post settles; getAIAdvice returns the completion or falls back.
Settle(q, o) ==
  /\ hpc[q] = "upstream"
  /\ upstream' = [upstream EXCEPT ![q] = o]
  /\ advice' = [advice EXCEPT ![q] =
        IF o = "ok" THEN Completion(body[q].crop, body[q].location, clock)
                    ELSE Fallback(body[q].crop, body[q].location, clock)]
  /\ hpc' = [hpc EXCEPT ![q] = "settled"]
  /\ UNCHANGED <<clock, apiKey, body, responses, aiCalls, routeVars, timing, market, callVars, envVars>>

\* getFarmerAdvice after its await: res.json, or the catch block's 500.
Respond(q) ==
  /\ hpc[q] = "settled"
  /\ responses' = [responses EXCEPT ![q] = Append(@,
        IF advice[q].state = "fulfilled" THEN Success(advice[q]) ELSE ServerError)]
  /\ hpc' = [hpc EXCEPT ![q] = "done"]
  /\ UNCHANGED <<clock, apiKey, body, upstream, advice, aiCalls, routeVars, timing, market, callVars, envVars>>

\* ------------------------------------------- getBuyerTiming, getAITimingAdvice

NoTiming == [state |-> "pending", recommendation |-> <<>>, timestamp |-> 0,
             marketIndicator |-> "", note |-> <<>>]

\* Math.random() > 0.5 ? 'BUY' : 'WAIT'
MarketIndicator(r) == IF 2 * r > RandomScale THEN "BUY" ELSE "WAIT"

\* The return of getAITimingAdvice after a well-formed completion.
TimingCompletion(r, now) ==
  [state |-> "fulfilled",
   recommendation |-> <<"response.data.choices[0].message.content">>,
   timestamp |-> now, marketIndicator |-> MarketIndicator(r), note |-> <<>>]

\* The catch block of getAITimingAdvice.
TimingFallbackNoNote(now) ==
  [state |-> "fulfilled", recommendation |-> <<"Mock timing advice">>,
   timestamp |-> now, marketIndicator |-> "WAIT", note |-> <<>>]

TimingFallback(now) ==
  [state |-> "fulfilled", recommendation |-> <<"Mock timing advice">>,
   timestamp |-> now, marketIndicator |-> "WAIT", note |-> <<FallbackNote>>]

TimingError == [status |-> 500, success |-> FALSE, data |-> NoTiming,
                error |-> "Failed to get buying timing advice"]

\* getBuyerTiming up to its await: getAITimingAdvice up to axios.post.
BuyerTiming(q, b) ==
  /\ hpc[q] = "idle"
  /\ body' = [body EXCEPT ![q] = b]
  /\ hpc' = [hpc EXCEPT ![q] = "upstream"]
  /\ UNCHANGED <<clock, apiKey, upstream, advice, responses, aiCalls, timing, market, callVars, envVars>>

\* axios.post settles; getAITimingAdvice returns the completion with a drawn
\* indicator, or falls back.
SettleTiming(q, o) ==
  /\ hpc[q] = "upstream"
  /\ handler[q] = "getBuyerTiming"
  /\ upstream' = [upstream EXCEPT ![q] = o]
  /\ IF o = "ok"
     THEN /\ Len(rng) >= 1
          /\ timing' = [timing EXCEPT ![q] = TimingCompletion(Head(rng), clock)]
          /\ rng' = Tail(rng)
     ELSE /\ timing' = [timing EXCEPT ![q] = TimingFallback(clock)]
          /\ UNCHANGED rng
  /\ hpc' = [hpc EXCEPT ![q] = "settled"]
  /\ UNCHANGED <<clock, pc, args, crop, days, idx, basePrice, history, result, fed, reads,
                 apiKey, body, advice, responses, aiCalls, routeVars, market, envVars>>

\* getBuyerTiming after its await: res.json, or the catch block's 500.
RespondTiming(q) ==
  /\ hpc[q] = "settled"
  /\ handler[q] = "getBuyerTiming"
  /\ responses' = [responses EXCEPT ![q] = Append(@,
        IF timing[q].state = "fulfilled" THEN Success(timing[q]) ELSE TimingError)]
  /\ hpc' = [hpc EXCEPT ![q] = "done"]
  /\ UNCHANGED <<clock, apiKey, body, upstream, advice, aiCalls, routeVars, timing, market, callVars, envVars>>

\* ------------------------------------------- getMarketTrends, getMarketData

MarketCrops == <<"Wheat", "Rice", "Corn", "Soybeans", "Cotton">>

MarketLocations == <<"California", "Texas", "Iowa", "Kansas", "Illinois">>

TrendNames == <<"up", "down", "stable">>

MarketInsights ==
  [overallTrend |-> "Prices are stable with slight upward movement expected",
   bestTimeToSell |-> "Next 2-3 weeks",
   recommendedActions |-> <<"Monitor weather patterns closely",
                            "Consider storage options for surplus",
                            "Explore contract farming opportunities">>]

NoMarket == [state |-> "pending", timestamp |-> 0, trends |-> <<>>,
             regionalPrices |-> <<>>,
             marketInsights |-> [overallTrend |-> "", bestTimeToSell |-> "",
                                 recommendedActions |-> <<>>]]

\* Math.floor(Math.random() * n)
Floor(r, n) == (r * n) \div RandomScale

\* (Math.random() - 0.5) * 20, in 1/Milli.
PriceChange(r) == (r * ChangeSpan * Milli) \div RandomScale - (ChangeSpan * Milli) \div 2

\* Math.random() calls of one crop of `trends` and of one location of
\* `regionalPrices`, and of one getMarketData call.
TrendDraws == Cardinality({"currentPrice", "priceChange", "trend", "volume"})

RegionDraws == 1 + TopCount

MarketDraws == TrendDraws * Len(MarketCrops) + RegionDraws * Len(MarketLocations)

\* The object getMarketData builds, its Math.random() results read off `tape`
\* in the order the object literal evaluates them.
getMarketData(tape, now) ==
  LET trendAt(i) ==
        LET o == TrendDraws * (i - 1)
        IN  [crop |-> MarketCrops[i],
             currentPrice |-> Floor(tape[o + 1], PriceSpan) + PriceBase,
             priceChange |-> PriceChange(tape[o + 2]),
             trend |-> TrendNames[Floor(tape[o + 3], Len(TrendNames)) + 1],
             volume |-> Floor(tape[o + 4], TrendVolumeSpan) + TrendVolumeBase]
      regionAt(j) ==
        LET o == TrendDraws * Len(MarketCrops) + RegionDraws * (j - 1)
        IN  [location |-> MarketLocations[j],
             averagePrice |-> Floor(tape[o + 1], RegionSpan) + RegionBase,
             topCrops |-> [t \in 1 .. TopCount |->
                             [crop |-> MarketCrops[t],
                              price |-> Floor(tape[o + 1 + t], TopSpan) + TopBase]]]
  IN  [state |-> "fulfilled", timestamp |-> now,
       trends |-> [i \in 1 .. Len(MarketCrops) |-> trendAt(i)],
       regionalPrices |-> [j \in 1 .. Len(MarketLocations) |-> regionAt(j)],
       marketInsights |-> MarketInsights]

TrendsError == [status |-> 500, success |-> FALSE, data |-> NoMarket,
                error |-> "Failed to get market trends"]

\* getMarketTrends up to its await: getMarketData runs to its return, drawing
\* its random numbers and reading the clock.
getMarketTrends(q, b) ==
  /\ hpc[q] = "idle"
  /\ Len(rng) >= MarketDraws
  /\ body' = [body EXCEPT ![q] = b]
  /\ market' = [market EXCEPT ![q] = getMarketData(rng, clock)]
  /\ rng' = SubSeq(rng, MarketDraws + 1, Len(rng))
  /\ hpc' = [hpc EXCEPT ![q] = "settled"]
  /\ UNCHANGED <<clock, pc, args, crop, days, idx, basePrice, history, result, fed, reads,
                 apiKey, upstream, advice, responses, aiCalls, timing, envVars>>

\* getMarketTrends after its await: res.json, or the catch block's 500.
RespondTrends(q) ==
  /\ hpc[q] = "settled"
  /\ handler[q] = "getMarketTrends"
  /\ responses' = [responses EXCEPT ![q] = Append(@,
        IF market[q].state = "fulfilled" THEN Success(market[q]) ELSE TrendsError)]
  /\ hpc' = [hpc EXCEPT ![q] = "done"]
  /\ UNCHANGED <<clock, apiKey, body, upstream, advice, aiCalls, routeVars, timing, market, callVars, envVars>>

\* ------------------------------------------ getWeatherData, getWeatherAlerts

WeatherConditions == <<"Sunny", "Cloudy", "Rainy", "Partly Cloudy">>

WeatherForecast ==
  <<[day |-> "Today", temp |-> 25, condition |-> "Sunny"],
    [day |-> "Tomorrow", temp |-> 23, condition |-> "Cloudy"],
    [day |-> "Day 3", temp |-> 22, condition |-> "Rainy"]>>

WeatherLocations == {"Iowa", "Kansas"}

NoWeather == [state |-> "pending", location |-> "", temperature |-> 0, humidity |-> 0,
              rainfall |-> 0, conditions |-> "", forecast |-> <<>>, lastUpdated |-> 0]

\* Math.random() calls of one getWeatherData call.
WeatherDraws == Cardinality({"temperature", "humidity", "rainfall", "conditions"})

\* The object getWeatherData builds, its Math.random() results read off `tape`
\* in the order the object literal evaluates them.
getWeatherData(tape, location, now) ==
  [state |-> "fulfilled", location |-> location,
   temperature |-> Floor(tape[1], TemperatureSpan) + TemperatureBase,
   humidity |-> Floor(tape[2], HumiditySpan) + HumidityBase,
   rainfall |-> Floor(tape[3], RainfallSpan),
   conditions |-> WeatherConditions[Floor(tape[4], Len(WeatherConditions)) + 1],
   forecast |-> WeatherForecast, lastUpdated |-> now]

\* The array getWeatherAlerts returns, whatever the location.
getWeatherAlerts(location) ==
  <<[type |-> "warning",
     message |-> "Heavy rainfall expected in the next 48 hours. Prepare for waterlogging.",
     severity |-> "moderate"],
    [type |-> "info",
     message |-> "Temperature dropping below optimal range for crop growth.",
     severity |-> "low"]>>

\* A caller invokes getWeatherData: it draws its random numbers, reads the
\* clock and returns.
Weather(loc) ==
  /\ weather.state = "pending"
  /\ Len(rng) >= WeatherDraws
  /\ weather' = getWeatherData(rng, loc, clock)
  /\ rng' = SubSeq(rng, WeatherDraws + 1, Len(rng))
  /\ UNCHANGED <<clock, tz, alerts, pc, args, crop, days, idx, basePrice, history, result,
                 fed, reads, adviceVars>>

\* A caller invokes getWeatherAlerts.
Alerts(loc) ==
  /\ alerts = <<>>
  /\ alerts' = getWeatherAlerts(loc)
  /\ UNCHANGED <<clock, tz, weather, callVars, adviceVars>>

\* A caller invokes a handler with a request and a response object of its own.
Invoke(q, h, b) ==
  /\ hpc[q] = "idle"
  /\ handler' = [handler EXCEPT ![q] = h]
  /\ UNCHANGED request
  /\ CASE h = "getBuyerTiming" -> BuyerTiming(q, b)
       [] h = "getMarketTrends" -> getMarketTrends(q, b)

\* ------------------------------------------------------------------ server.js

Methods == {"GET", "POST", "HEAD", "OPTIONS"}

\* Paths are sequences of characters, so that letter case and a trailing
\* slash are there to be compared.
\* "/"
RootPath ==
  <<"/">>

\* "/api/farmer/advice"
AdvicePath ==
  <<"/", "a", "p", "i", "/", "f", "a", "r", "m", "e", "r", "/", "a", "d", "v", "i", "c", "e">>

\* "/api/market/trends"
TrendsPath ==
  <<"/", "a", "p", "i", "/", "m", "a", "r", "k", "e", "t", "/", "t", "r", "e", "n", "d", "s">>

\* "/api/buyer/timing"
TimingPath ==
  <<"/", "a", "p", "i", "/", "b", "u", "y", "e", "r", "/", "t", "i", "m", "i", "n", "g">>

\* "/api/unknown"
UnknownPath ==
  <<"/", "a", "p", "i", "/", "u", "n", "k", "n", "o", "w", "n">>

\* "/api/market/trends/"
TrendsSlashPath ==
  <<"/", "a", "p", "i", "/", "m", "a", "r", "k", "e", "t", "/", "t", "r", "e", "n", "d", "s", "/">>

\* "/API/MARKET/TRENDS"
TrendsUpperPath ==
  <<"/", "A", "P", "I", "/", "M", "A", "R", "K", "E", "T", "/", "T", "R", "E", "N", "D", "S">>

\* The pathnames of the requests sent to the server.
Paths == {RootPath, AdvicePath, TrendsPath, TimingPath, UnknownPath,
          TrendsSlashPath, TrendsUpperPath}

\* "/api/farmer"
FarmerMount ==
  <<"/", "a", "p", "i", "/", "f", "a", "r", "m", "e", "r">>

\* "/api/market"
MarketMount ==
  <<"/", "a", "p", "i", "/", "m", "a", "r", "k", "e", "t">>

\* "/api/buyer"
BuyerMount ==
  <<"/", "a", "p", "i", "/", "b", "u", "y", "e", "r">>

\* "/advice"
AdviceRoute ==
  <<"/", "a", "d", "v", "i", "c", "e">>

\* "/trends"
TrendsRoute ==
  <<"/", "t", "r", "e", "n", "d", "s">>

\* "/timing"
TimingRoute ==
  <<"/", "t", "i", "m", "i", "n", "g">>

\* The routes registered on the app, each under the path its router is
\* mounted on (<<>> for a route of the app itself).
Routes ==
  { [mount |-> FarmerMount, method |-> "POST", path |-> AdviceRoute, handler |-> "getFarmerAdvice"],
    [mount |-> MarketMount, method |-> "GET",  path |-> TrendsRoute, handler |-> "getMarketTrends"],
    [mount |-> BuyerMount,  method |-> "GET",  path |-> TimingRoute, handler |-> "getBuyerTiming"],
    [mount |-> <<>>,        method |-> "GET",  path |-> RootPath,    handler |-> "root"] }

UpperLetters ==
  <<"A", "B", "C", "D", "E", "F", "G", "H", "I", "J", "K", "L", "M", "N", "O", "P", "Q", "R", "S", "T", "U", "V", "W", "X", "Y", "Z">>

LowerLetters ==
  <<"a", "b", "c", "d", "e", "f", "g", "h", "i", "j", "k", "l", "m", "n", "o", "p", "q", "r", "s", "t", "u", "v", "w", "x", "y", "z">>

\* Express matches paths without regard to letter case (caseSensitive is off).
LowerOf ==
  [c \in {UpperLetters[k] : k \in 1 .. Len(UpperLetters)} |->
     LowerLetters[CHOOSE k \in 1 .. Len(UpperLetters) : UpperLetters[k] = c]]

ToLowerCase(p) ==
  [i \in 1 .. Len(p) |-> IF p[i] \in DOMAIN LowerOf THEN LowerOf[p[i]] ELSE p[i]]

\* app.use(mount, router): the path begins with the mount path, up to the end
\* or a slash.
MountMatches(mount, p) ==
  /\ Len(p) >= Len(mount)
  /\ SubSeq(ToLowerCase(p), 1, Len(mount)) = mount
  /\ Len(p) = Len(mount) \/ p[Len(mount) + 1] = "/"

\* The path the router sees: the mount path stripped, "/" when nothing is left.
MountRest(mount, p) ==
  IF Len(p) = Len(mount) THEN RootPath ELSE SubSeq(p, Len(mount) + 1, Len(p))

\* router.get(path, ...): the whole path, with or without a trailing slash
\* (strict is off).
RouteMatches(path, u) ==
  \/ ToLowerCase(u) = path
  \/ path # RootPath /\ ToLowerCase(u) = path \o RootPath

\* Whether a route registered for method `rm` takes a request of method `m`:
\* a get route also takes HEAD.
MethodMatchesExactly(rm, m) == m = rm

MethodMatches(rm, m) == m = rm \/ (rm = "GET" /\ m = "HEAD")

\* The middleware or handler that answers a request of method m for the
\* pathname p: cors() ends every OPTIONS request, express.json() hands a body
\* that does not parse to the error-handling middleware, then the routes,
\* then the 404 handler.
Reached(m, p, parses) ==
  IF m = "OPTIONS" THEN "cors"
  ELSE IF ~parses THEN "errorHandler"
  ELSE LET hit == {r \in Routes : /\ MountMatches(r.mount, p)
                                  /\ RouteMatches(r.path, MountRest(r.mount, p))
                                  /\ MethodMatches(r.method, m)}
       IN  IF hit = {} THEN "notFound" ELSE (CHOOSE r \in hit : TRUE).handler

NoData == [source |-> "none"]

Preflight == [status |-> 204, success |-> FALSE, data |-> NoData, error |-> ""]

Welcome == [status |-> 200, success |-> FALSE,
            data |-> [source |-> "Welcome to AgriFusion Backend!"], error |-> ""]

SomethingWrong == [status |-> 500, success |-> FALSE, data |-> NoData,
                   error |-> "Something went wrong!"]

NotFound == [status |-> 404, success |-> FALSE, data |-> NoData,
             error |-> "Route not found"]

\* The response of a middleware or handler that answers without an await.
Answer(h) ==
  CASE h = "cors" -> Preflight
    [] h = "errorHandler" -> SomethingWrong
    [] h = "root" -> Welcome
    [] OTHER -> NotFound

\* The response a request was answered with.
Sent(q) == responses[q][1]

\* The body {}, which is also what express.json() leaves for a request that
\* carries none.
EmptyBody == [crop |-> Missing, location |-> Missing]

\* Request bodies sent to the server: both fields, or no crop.
ServerBodies == {[crop |-> Text("wheat"), location |-> Text("Iowa")],
                 [crop |-> Missing, location |-> Text("Iowa")]}

\* The requests sent to the server: any method and path, a JSON body, well
\* formed or not, on the POST requests only.
Requests ==
  {r \in [method : Methods, path : Paths, body : ServerBodies \cup {EmptyBody}, parses : BOOLEAN] :
     IF r.method = "POST" THEN r.body \in ServerBodies ELSE r.body = EmptyBody /\ r.parses}

\* A request passes the middleware chain and reaches what answers it.
Dispatch(q, m, p, b, parses) ==
  /\ hpc[q] = "idle"
  /\ request' = [request EXCEPT ![q] = [method |-> m, path |-> p, parses |-> parses]]
  /\ handler' = [handler EXCEPT ![q] = Reached(m, p, parses)]
  /\ CASE Reached(m, p, parses) = "getFarmerAdvice" -> Receive(q, b)
       [] Reached(m, p, parses) = "getBuyerTiming" -> BuyerTiming(q, b)
       [] Reached(m, p, parses) = "getMarketTrends" -> getMarketTrends(q, b)
       [] OTHER ->
            /\ responses' = [responses EXCEPT ![q] = Append(@, Answer(Reached(m, p, parses)))]
            /\ hpc' = [hpc EXCEPT ![q] = "done"]
            /\ body' = [body EXCEPT ![q] = IF parses /\ m # "OPTIONS" THEN b ELSE @]
            /\ UNCHANGED <<clock, apiKey, upstream, advice, aiCalls, timing, market, callVars, envVars>>

InitRequests ==
  /\ hpc = [q \in ReqIds |-> "idle"]
  /\ body = [q \in ReqIds |-> [crop |-> Missing, location |-> Missing]]
  /\ upstream = [q \in ReqIds |-> "none"]
  /\ advice = [q \in ReqIds |-> Pending]
  /\ responses = [q \in ReqIds |-> <<>>]
  /\ aiCalls = [q \in ReqIds |-> 0]
  /\ request = [q \in ReqIds |-> [method |-> "", path |-> <<>>, parses |-> TRUE]]
  /\ handler = [q \in ReqIds |-> "none"]
  /\ timing = [q \in ReqIds |-> NoTiming]
  /\ market = [q \in ReqIds |-> NoMarket]
  /\ weather = NoWeather
  /\ alerts = <<>>

InitCalls ==
  /\ clock = Start
  /\ pc = [c \in CallIds |-> "idle"]
  /\ args = [c \in CallIds |-> [crop |-> "", days |-> <<>>]]
  /\ crop = [c \in CallIds |-> ""]
  /\ days = [c \in CallIds |-> 0]
  /\ idx = [c \in CallIds |-> 0]
  /\ basePrice = [c \in CallIds |-> 0]
  /\ history = [c \in CallIds |-> <<>>]
  /\ result = [c \in CallIds |-> NoResult]
  /\ fed = [c \in CallIds |-> <<>>]
  /\ reads = [c \in CallIds |-> <<>>]

\* One invocation of getPriceHistory.
Init ==
  /\ rng \in Tapes(TapeLen)
  /\ InitCalls
  /\ tz = "UTC"
  /\ apiKey = FALSE
  /\ InitRequests

Next ==
  \/ \E cr \in Crops, a \in DaysArgs : Call(1, cr, a)
  \/ Iterate(1)
  \/ Return(1)
  \/ Tick

Spec == Init /\ [][Next]_vars

\* One invocation fed a constant source, the synchronous function running on
\* once it is called: an enabled loop iteration or return is eventually
\* executed.
InitRun ==
  /\ rng \in {TwoPhase(a, a, TapeLen, TapeLen) : a \in Draws}
  /\ InitCalls
  /\ tz = "UTC"
  /\ apiKey = FALSE
  /\ InitRequests

SpecRun == InitRun /\ [][Next]_vars /\ WF_vars(Iterate(1)) /\ WF_vars(Return(1))

\* One invocation on a host of either time zone.
InitZones ==
  /\ rng \in {TwoPhase(a, a, TapeLen, TapeLen) : a \in Draws}
  /\ clock = Start
  /\ pc = [c \in CallIds |-> "idle"]
  /\ args = [c \in CallIds |-> [crop |-> "", days |-> <<>>]]
  /\ crop = [c \in CallIds |-> ""]
  /\ days = [c \in CallIds |-> 0]
  /\ idx = [c \in CallIds |-> 0]
  /\ basePrice = [c \in CallIds |-> 0]
  /\ history = [c \in CallIds |-> <<>>]
  /\ result = [c \in CallIds |-> NoResult]
  /\ fed = [c \in CallIds |-> <<>>]
  /\ reads = [c \in CallIds |-> <<>>]
  /\ tz \in Zones
  /\ apiKey = FALSE
  /\ InitRequests

SpecZones == InitZones /\ [][Next]_vars

\* Two invocations, their loop iterations interleaved in any order.
InitConc ==
  /\ rng \in Tapes(ConcTapeLen)
  /\ InitCalls
  /\ tz = "UTC"
  /\ apiKey = FALSE
  /\ InitRequests

NextConc ==
  \/ \E c \in CallIds, cr \in Crops, a \in ConcDaysArgs : Call(c, cr, a)
  \/ \E c \in CallIds : Iterate(c)
  \/ \E c \in CallIds : Return(c)
  \/ Tick

SpecConc == InitConc /\ [][NextConc]_vars

\* Requests to POST /api/farmer/advice, their awaits interleaved in any order.
InitAdvice ==
  /\ rng = <<>>
  /\ InitCalls
  /\ tz = "UTC"
  /\ apiKey \in BOOLEAN
  /\ InitRequests

NextAdvice ==
  \/ \E q \in ReqIds, b \in Bodies : Receive(q, b) /\ UNCHANGED routeVars
  \/ \E q \in ReqIds, o \in Outcomes : Settle(q, o)
  \/ \E q \in ReqIds : Respond(q)
  \/ Tick

SpecAdvice == InitAdvice /\ [][NextAdvice]_vars

\* The server: requests of any method and path, their awaits interleaved.
\* Every request may be a getMarketTrends.
ServerTapeLen == Cardinality(ReqIds) * MarketDraws

\* The source changes phase after its first result or after one getMarketData.
ServerSwitchPoints == {1, MarketDraws}

ServerTapes ==
  {TwoPhase(a, b, k, ServerTapeLen) : a \in Draws, b \in Draws, k \in ServerSwitchPoints}

InitServer ==
  /\ rng \in ServerTapes
  /\ InitCalls
  /\ tz = "UTC"
  /\ apiKey \in BOOLEAN
  /\ InitRequests

NextServer ==
  \/ \E q \in ReqIds, r \in Requests : Dispatch(q, r.method, r.path, r.body, r.parses)
  \/ \E q \in ReqIds, o \in Outcomes :
        handler[q] = "getFarmerAdvice" /\ Settle(q, o)
  \/ \E q \in ReqIds : handler[q] = "getFarmerAdvice" /\ Respond(q)
  \/ \E q \in ReqIds, o \in Outcomes : SettleTiming(q, o)
  \/ \E q \in ReqIds : RespondTiming(q)
  \/ \E q \in ReqIds : RespondTrends(q)
  \/ Tick

SpecServer == InitServer /\ [][NextServer]_vars

\* The event loop runs every continuation that is ready: a handler whose
\* awaited promise has settled goes on to its response.  Nothing makes an
\* axios call settle: neither call sets a timeout.
Continue ==
  \E q \in ReqIds :
    \/ handler[q] = "getFarmerAdvice" /\ Respond(q)
    \/ RespondTiming(q)
    \/ RespondTrends(q)

\* The key is configured: no code reads it but the Authorization header.
InitServerRun ==
  /\ rng \in {TwoPhase(a, a, ServerTapeLen, ServerTapeLen) : a \in Draws}
  /\ InitCalls
  /\ tz = "UTC"
  /\ apiKey = TRUE
  /\ InitRequests

SpecServerRun == InitServerRun /\ [][NextServer]_vars /\ WF_vars(Continue)

\* The exported functions called directly: two handler invocations, one
\* getWeatherData and one getWeatherAlerts call, all on the one Math.random.
ServiceTapeLen == Cardinality(ReqIds) * MarketDraws + WeatherDraws

\* The source changes phase after its first result, after one getWeatherData
\* or after one getMarketData.
ServiceSwitchPoints == {1, WeatherDraws, MarketDraws}

ServiceTapes ==
  {TwoPhase(a, b, k, ServiceTapeLen) : a \in Draws, b \in Draws, k \in ServiceSwitchPoints}

InitServices ==
  /\ rng \in ServiceTapes
  /\ InitCalls
  /\ tz = "UTC"
  /\ apiKey \in BOOLEAN
  /\ InitRequests

NextServices ==
  \/ \E q \in ReqIds, h \in {"getBuyerTiming", "getMarketTrends"} :
        Invoke(q, h, EmptyBody)
  \/ \E q \in ReqIds, o \in Outcomes : SettleTiming(q, o)
  \/ \E q \in ReqIds : RespondTiming(q)
  \/ \E q \in ReqIds : RespondTrends(q)
  \/ \E loc \in WeatherLocations : Weather(loc)
  \/ \E loc \in WeatherLocations : Alerts(loc)
  \/ Tick

SpecServices == InitServices /\ [][NextServices]_vars

\* ------------------------------------------------- the walk, run on its own

\* The accumulator after n iterations fed the draws f (f[1] the starting draw,
\* f[2k] the step draw and f[2k+1] the volume draw of iteration k).
RECURSIVE WalkValue(_, _)
WalkValue(f, n) ==
  IF n = 0 THEN StartPrice(f[1]) ELSE StepPrice(WalkValue(f, n - 1), f[2 * n])

\* The history of an invocation with d days fed the draws f, its iterations
\* reading the clock values t.
WalkHistory(d, f, t) ==
  [k \in 1 .. Len(t) |->
     [date   |-> SampleDate(tz, t[k], d - (k - 1)),
      price  |-> RoundCents(WalkValue(f, k)),
      volume |-> Volume(f[2 * k + 1])]]

MinCents == MinPrice * CentsPerUnit

MaxCents == MaxPrice * CentsPerUnit

\* ------------------------------------------------------------------ claims

\* C1: a finished getPriceHistory call with days >= 0 returns a history of
\* exactly days + 1 samples.
C1_HistoryLength ==
  \A c \in CallIds :
    (pc[c] = "done" /\ days[c] >= 0) => Len(result[c].history) = days[c] + 1

C1_Witness ==
  /\ pc[1] = "done"
  /\ days[1] = DefaultDays
  /\ Len(result[1].history) = DefaultDays + 1

\* C2: every emitted price, after clamping and rounding to cents, lies in
\* [50, 300], whatever the draws.
C2_PriceBounds ==
  \A c \in CallIds :
    /\ \A k \in 1 .. Len(history[c]) :
         MinCents <= history[c][k].price /\ history[c][k].price <= MaxCents
    /\ \A k \in 1 .. Len(result[c].history) :
         MinCents <= result[c].history[k].price /\ result[c].history[k].price <= MaxCents

\* A step that overshot 300 was emitted as exactly 300.00.
C2_Witness ==
  \E n \in 1 .. Len(history[1]) :
    /\ WalkValue(fed[1], n - 1) + Delta(fed[1][2 * n]) > MaxPrice * Milli
    /\ history[1][n].price = MaxCents

\* C3: the dates of consecutive samples differ by exactly one day, ascending,
\* and the last sample carries the date of generation, also when the clock
\* advances between loop iterations.
C3_ContiguousDates ==
  \A c \in CallIds :
    /\ \A k \in 1 .. Len(history[c]) - 1 :
         history[c][k + 1].date = history[c][k].date + 1
    /\ (pc[c] = "done" /\ history[c] # <<>>) =>
         history[c][Len(history[c])].date = UtcDate(reads[c][Len(reads[c])])

\* C4, as claimed: the oldest sample carries the starting value with no step
\* applied, and a finished call has applied exactly `days` steps.
C4_FirstSampleIsStart ==
  \A c \in CallIds :
    /\ history[c] # <<>> => history[c][1].price = RoundCents(StartPrice(fed[c][1]))
    /\ (pc[c] = "done" /\ days[c] >= 0) => (Len(fed[c]) - 1) \div 2 = days[c]

\* C4, amended: a step is applied before every emitted sample, the oldest
\* included: the oldest sample carries the starting value plus one clamped
\* step, and a finished call with days >= 0 has applied exactly days + 1 steps.
C4_StepBeforeEverySample ==
  \A c \in CallIds :
    /\ pc[c] # "idle" => Len(fed[c]) = 1 + 2 * Len(history[c])
    /\ history[c] # <<>> =>
         history[c][1].price = RoundCents(StepPrice(StartPrice(fed[c][1]), fed[c][2]))
    /\ (pc[c] = "done" /\ days[c] >= 0) => (Len(fed[c]) - 1) \div 2 = days[c] + 1

\* days = 0: one sample, and it is not the starting value.
C4_Witness ==
  /\ pc[1] = "done"
  /\ days[1] = 0
  /\ Len(result[1].history) = 1
  /\ result[1].history[1].price # RoundCents(StartPrice(fed[1][1]))

\* C5, as claimed: a call with negative days fails and returns no series.
C5_NegativeDaysRejected ==
  \A c \in CallIds : pc[c] = "done" => days[c] >= 0

\* C5, amended: a call with negative days does not fail: it draws the starting
\* price, runs no iteration and returns the crop, an empty history and the
\* period "<days> days".
C5_NegativeDaysEmpty ==
  \A c \in CallIds :
    (pc[c] = "done" /\ days[c] < 0) =>
      /\ result[c] = [crop |-> crop[c], history |-> <<>>, period |-> <<days[c], " days">>]
      /\ Len(fed[c]) = 1
      /\ reads[c] = <<>>

C5_Witness ==
  /\ pc[1] = "done"
  /\ days[1] = -1
  /\ result[1].history = <<>>

\* C6: two finished calls with the same crop and days, fed the same draws and
\* reading the same dates, returned identical results.
C6_Determinism ==
  \A c1 \in CallIds, c2 \in CallIds :
    ( /\ pc[c1] = "done" /\ pc[c2] = "done"
      /\ crop[c1] = crop[c2] /\ days[c1] = days[c2]
      /\ fed[c1] = fed[c2] /\ reads[c1] = reads[c2] )
    => result[c1] = result[c2]

C6_Witness ==
  /\ pc[1] = "done" /\ pc[2] = "done"
  /\ crop[1] = crop[2] /\ days[1] = days[2]
  /\ fed[1] = fed[2] /\ reads[1] = reads[2]
  /\ Len(result[1].history) = 2
  /\ result[1].history[1].price # RoundCents(StartPrice(fed[1][1]))

\* C7: in every loop iteration the accumulator becomes the clamp of its old
\* value plus the step: exactly 300 (50) when that sum is above 300 (below
\* 50), so the next step starts from the pinned value; the emitted price is
\* the rounded new accumulator.
C7_ClampEveryStep ==
  [][\A c \in CallIds :
       Len(history'[c]) = Len(history[c]) + 1 =>
         LET raw == basePrice[c] + Delta(fed'[c][Len(fed[c]) + 1])
         IN  /\ basePrice'[c] = IF raw > MaxPrice * Milli THEN MaxPrice * Milli
                                ELSE IF raw < MinPrice * Milli THEN MinPrice * Milli
                                ELSE raw
             /\ history'[c][Len(history'[c])].price = RoundCents(basePrice'[c])]_vars

\* A step undershot 50 and was pinned, and the next sample is the pin plus the
\* next (upward) step.
C7_Witness ==
  \E n \in 1 .. Len(history[1]) - 1 :
    /\ WalkValue(fed[1], n - 1) + Delta(fed[1][2 * n]) < MinPrice * Milli
    /\ history[1][n].price = MinCents
    /\ Delta(fed[1][2 * n + 2]) > 0
    /\ history[1][n + 1].price = RoundCents(MinPrice * Milli + Delta(fed[1][2 * n + 2]))

\* C8: under any interleaving every invocation's accumulator, history and
\* result are those of the walk run on its own over the draws and dates that
\* invocation read; a finished call with days >= 0 returns days + 1 samples.
C8_Independent ==
  \A c \in CallIds :
    /\ pc[c] # "idle" =>
         /\ basePrice[c] = WalkValue(fed[c], Len(history[c]))
         /\ history[c] = WalkHistory(days[c], fed[c], reads[c])
    /\ pc[c] = "done" =>
         /\ result[c] = [crop |-> crop[c],
                         history |-> WalkHistory(days[c], fed[c], reads[c]),
                         period |-> <<days[c], " days">>]
         /\ days[c] >= 0 => Len(result[c].history) = days[c] + 1

\* Both calls returned two samples and their iterations were interleaved: they
\* drew the same starting value, and each drew a different value later.
C8_Witness ==
  /\ pc[1] = "done" /\ pc[2] = "done"
  /\ Len(result[1].history) = 2 /\ Len(result[2].history) = 2
  /\ fed[1][1] = fed[2][1]
  /\ fed[1][1] # fed[1][5]
  /\ fed[2][1] # fed[2][5]

\* C9: getAIAdvice never rejects: a request with both fields present is
\* answered 200 with success: true, never 500, and when the upstream call
\* failed or no key is configured the data is the fallback object echoing
\* crop and location, with the fallback note.
C9_AdviceNeverThrows ==
  \A q \in ReqIds :
    (~Falsy(body[q].crop) /\ ~Falsy(body[q].location) /\ hpc[q] \in {"settled", "done"}) =>
      /\ advice[q].state = "fulfilled"
      /\ advice[q].crop = body[q].crop /\ advice[q].location = body[q].location
      /\ (upstream[q] # "ok" \/ ~apiKey) => advice[q].note = <<FallbackNote>>
      /\ hpc[q] = "done" => responses[q] = <<Success(advice[q])>>

\* C10: a request whose body lacks crop or location (missing or empty) is
\* answered 400 'Missing required fields', once, without calling getAIAdvice.
C10_MissingFields ==
  \A q \in ReqIds :
    (hpc[q] # "idle" /\ (Falsy(body[q].crop) \/ Falsy(body[q].location))) =>
      /\ hpc[q] = "done"
      /\ responses[q] = <<BadRequest>>
      /\ aiCalls[q] = 0
      /\ upstream[q] = "none"

C10_Witness ==
  /\ hpc[1] = "done"
  /\ Falsy(body[1].crop) /\ ~Falsy(body[1].location)
  /\ responses[1] = <<BadRequest>>

\* C11: every daily change lies in [-5, +5]: in every iteration the
\* accumulator moves by at most 5, and the emitted price differs from the
\* previous emitted price by at most 5.01.
C11_StepWithinFive ==
  [][\A c \in CallIds :
       Len(history'[c]) = Len(history[c]) + 1 =>
         LET d    == Delta(fed'[c][Len(fed[c]) + 1])
             half == (StepMagnitude * Milli) \div 2
             n    == Len(history[c])
         IN  /\ -half <= d /\ d <= half
             /\ basePrice'[c] - basePrice[c] <= half
             /\ basePrice[c] - basePrice'[c] <= half
             /\ n >= 1 =>
                  /\ history'[c][n + 1].price - history[c][n].price
                       <= (StepMagnitude * CentsPerUnit) \div 2 + 1
                  /\ history[c][n].price - history'[c][n + 1].price
                       <= (StepMagnitude * CentsPerUnit) \div 2 + 1]_vars

\* Two consecutive samples exactly 5.00 apart, neither pinned at a bound.
C11_Witness ==
  \E n \in 1 .. Len(history[1]) - 1 :
    /\ history[1][n].price - history[1][n + 1].price = (StepMagnitude * CentsPerUnit) \div 2
    /\ history[1][n + 1].price > MinCents

\* C12: a called getPriceHistory terminates, and it is all-or-nothing: no
\* result exists before the return, and the returned history is the complete
\* one, the loop variable having run from days down past 0.
C12_TerminatesWhole ==
  /\ [](\A c \in CallIds :
          /\ pc[c] # "done" => result[c] = NoResult
          /\ pc[c] = "done" =>
               /\ result[c].history = history[c]
               /\ idx[c] < 0
               /\ days[c] >= 0 => (idx[c] = -1 /\ Len(history[c]) = Len(reads[c])))
  /\ (pc[1] = "loop" ~> pc[1] = "done")

C12_Witness ==
  /\ pc[1] = "done"
  /\ days[1] = MaxDays
  /\ result[1].history = history[1]
  /\ Len(history[1]) = MaxDays + 1

\* C13: every sample's volume is an integer in [500, 5500) computed from the
\* sample's own volume draw alone.
C13_VolumeRange ==
  \A c \in CallIds :
    \A k \in 1 .. Len(history[c]) :
      /\ history[c][k].volume \in Int
      /\ VolumeBase <= history[c][k].volume
      /\ history[c][k].volume < VolumeBase + VolumeSpan
      /\ history[c][k].volume = (fed[c][2 * k + 1] * VolumeSpan) \div RandomScale + VolumeBase

\* Two samples with equal prices, one with the lowest volume and one with a
\* volume near the highest.
C13_Witness ==
  \E j \in 1 .. Len(history[1]), k \in 1 .. Len(history[1]) :
    /\ history[1][j].volume = VolumeBase
    /\ history[1][k].volume > VolumeBase + VolumeSpan - 2
    /\ history[1][j].price = history[1][k].price

\* C14: the result echoes the arguments: its crop is the crop passed in, its
\* period is "<days> days", an omitted days means 30 (period "30 days", 31
\* samples), and the starting value lies in [100, 200).
C14_EchoesArguments ==
  \A c \in CallIds :
    /\ (pc[c] = "loop" /\ history[c] = <<>>) =>
         /\ StartBase * Milli <= basePrice[c]
         /\ basePrice[c] < (StartBase + StartSpan) * Milli
    /\ pc[c] = "done" =>
         /\ result[c].crop = args[c].crop
         /\ args[c].days # <<>> => result[c].period = <<args[c].days[1], " days">>
         /\ args[c].days = <<>> =>
              /\ result[c].period = <<DefaultDays, " days">>
              /\ Len(result[c].history) = DefaultDays + 1

C14_Witness ==
  /\ pc[1] = "done"
  /\ args[1] = [crop |-> "Rice", days |-> <<>>]
  /\ result[1].crop = "Rice"
  /\ Len(result[1].history) = DefaultDays + 1

\* C15: getAITimingAdvice always returns a marketIndicator of 'BUY' or 'WAIT';
\* when the upstream call fails the result is the fallback, with 'WAIT' and
\* the fallback note, and the note is absent after a successful upstream call;
\* getBuyerTiming sends exactly one response, a 200 with success: true that
\* carries the result.
C15_TimingAdvice ==
  \A q \in ReqIds :
    handler[q] = "getBuyerTiming" =>
      /\ hpc[q] \in {"settled", "done"} =>
           /\ timing[q].state = "fulfilled"
           /\ timing[q].marketIndicator \in {"BUY", "WAIT"}
           /\ upstream[q] # "ok" =>
                /\ timing[q].marketIndicator = "WAIT"
                /\ timing[q].note = <<FallbackNote>>
           /\ upstream[q] = "ok" => timing[q].note = <<>>
      /\ hpc[q] # "done" => responses[q] = <<>>
      /\ hpc[q] = "done" =>
           /\ Len(responses[q]) = 1
           /\ responses[q][1].status = 200
           /\ responses[q][1].success
           /\ responses[q][1].data = timing[q]

\* Two answered timing requests: one whose upstream call succeeded and drew
\* 'BUY', one whose upstream call failed.
C15_Witness ==
  \E q, r \in ReqIds :
    /\ handler[q] = "getBuyerTiming" /\ handler[r] = "getBuyerTiming"
    /\ hpc[q] = "done" /\ hpc[r] = "done"
    /\ upstream[q] = "ok" /\ timing[q].marketIndicator = "BUY"
    /\ upstream[r] \in {"malformed", "status", "network"}
    /\ timing[r].marketIndicator = "WAIT"
    /\ responses[r][1].data.note = <<FallbackNote>>

\* Same pathname but for letter case and a trailing slash.
SamePath(p, route) == ToLowerCase(p) \in {route, route \o RootPath}

\* C16 as stated: every request has exactly one response; only POST
\* /api/farmer/advice, GET /api/market/trends, GET /api/buyer/timing and GET /
\* reach a handler, and every other method and path is answered by the 404
\* handler with 'Route not found'.
C16_OnlyFourRoutes ==
  \A q \in ReqIds :
    hpc[q] # "idle" =>
      /\ Len(responses[q]) <= 1
      /\ hpc[q] = "done" => Len(responses[q]) = 1
      /\ LET four == { <<"POST", AdvicePath, "getFarmerAdvice">>,
                       <<"GET", TrendsPath, "getMarketTrends">>,
                       <<"GET", TimingPath, "getBuyerTiming">>,
                       <<"GET", RootPath, "root">> }
             hit == {r \in four : r[1] = request[q].method /\ r[2] = request[q].path}
         IN  IF hit # {}
             THEN \E r \in hit : handler[q] = r[3]
             ELSE /\ handler[q] = "notFound"
                  /\ hpc[q] = "done"
                  /\ Sent(q).status = 404
                  /\ Sent(q).error = "Route not found"

\* C16, amended: a request never has two responses, and has exactly one once
\* its handling has ended.  cors answers every OPTIONS request with 204; a
\* body that does not parse is answered 500 by the error middleware;
\* otherwise POST /api/farmer/advice and GET or HEAD of /api/market/trends,
\* /api/buyer/timing and / reach their handler, in any letter case and with
\* or without a trailing slash, and every other method and path is answered
\* by the 404 handler with 'Route not found', which answers nothing else.
\* cors, the error middleware, the welcome route and the 404 handler answer
\* at once; a handler that awaits answers once its promise has settled; while
\* the upstream call of getFarmerAdvice or getBuyerTiming is pending, which
\* no timeout ends, the request has no response.
C16_Routing ==
  /\ [](\A q \in ReqIds :
         hpc[q] # "idle" =>
           LET m == request[q].method
               p == request[q].path
               h == handler[q]
               get == m \in {"GET", "HEAD"}
           IN  /\ Len(responses[q]) <= 1
               /\ hpc[q] = "done" <=> Len(responses[q]) = 1
               /\ h = "cors" <=> m = "OPTIONS"
               /\ h = "cors" => Sent(q).status = 204
               /\ h = "errorHandler" <=> (m # "OPTIONS" /\ ~request[q].parses)
               /\ h = "errorHandler" =>
                    /\ Sent(q).status = 500
                    /\ Sent(q).error = "Something went wrong!"
               /\ (m # "OPTIONS" /\ request[q].parses) =>
                    /\ h = "getFarmerAdvice" <=> (m = "POST" /\ SamePath(p, AdvicePath))
                    /\ h = "getMarketTrends" <=> (get /\ SamePath(p, TrendsPath))
                    /\ h = "getBuyerTiming" <=> (get /\ SamePath(p, TimingPath))
                    /\ h = "root" <=> (get /\ p = RootPath)
                    /\ h \in {"getFarmerAdvice", "getMarketTrends", "getBuyerTiming",
                              "root", "notFound"}
               /\ h = "notFound" =>
                    /\ Sent(q).status = 404
                    /\ Sent(q).error = "Route not found"
               /\ (hpc[q] = "done" /\ Sent(q).status = 404) => h = "notFound"
               /\ h \in {"cors", "errorHandler", "root", "notFound"} => hpc[q] = "done"
               /\ hpc[q] = "upstream" =>
                    /\ h \in {"getFarmerAdvice", "getBuyerTiming"}
                    /\ upstream[q] = "none"
                    /\ responses[q] = <<>>)
  /\ \A q \in ReqIds : (hpc[q] = "settled") ~> (hpc[q] = "done")

\* HEAD /API/MARKET/TRENDS answered by getMarketTrends beside GET
\* /api/farmer/advice answered by the 404 handler.
C16_Witness ==
  \E q, r \in ReqIds :
    /\ request[q].method = "HEAD" /\ request[q].path = TrendsUpperPath
    /\ request[q].parses
    /\ handler[q] = "getMarketTrends"
    /\ responses[q] = <<Success(market[q])>>
    /\ market[q].state = "fulfilled"
    /\ request[r].method = "GET" /\ request[r].path = AdvicePath
    /\ handler[r] = "notFound"
    /\ responses[r] = <<NotFound>>

====
